---- MODULE Spec2Model ----
(***************************************************************************)
(* Model of src/components/json-schema-builder.tsx: the form values        *)
(* (a tree of SchemaField), the handlers addField / removeField, the name  *)
(* input and type select of FieldRow, the rows FieldRow renders, and the   *)
(* projection generateSchema.                                              *)
(*                                                                         *)
(* A SchemaField is the record [id, name, type, has, fields]; `has` says  *)
(* whether the optional property `fields` is present on the object, and    *)
(* `fields` is <<>> when it is not.  A path string such as                 *)
(* "fields.0.fields.1" is the sequence of its dot-separated parts,         *)
(* <<"fields", "0", "fields", "1">>.  Array indices are 0-based as in the  *)
(* code; element i of an array a is a[i + 1].                              *)
(***************************************************************************)
EXTENDS Integers, Sequences, FiniteSets, TLC

\* ------------------------------------------------------------------ bounds
\* Number of ids crypto.randomUUID() may hand out in one run.
MaxIds == 3

\* Largest index and number of levels of a path string handed to removeField
\* when it is called directly.
MaxCallIndex == 1

MaxCallDepth == 2

\* Field names the name input may be given.
Names == {"", "x"}

\* ------------------------------------------------------------- state
VARIABLES
    fields,   \* form values: the root array `fields`
    nextId,   \* number of ids generated so far (the next fresh id is nextId + 1)
    last,     \* the last handler call: its kind and, for addField and
              \* removeField, the path it was handed
    rt        \* tracks a nested -> string/number -> nested type round trip

vars == <<fields, nextId, last, rt>>

SchemaFieldType == {"string", "number", "nested"}

\* The object literal of addField and of defaultValues: no `fields` property.
NewField(uuid) ==
    [id |-> uuid, name |-> "", type |-> "string", has |-> FALSE, fields |-> <<>>]

\* ------------------------------------------------------- path strings
\* Decimal text of an array index, as template literals print it.
DigitStr == <<"0", "1", "2", "3", "4", "5", "6">>

ToStr(i) == DigitStr[i + 1]

IsDigits(s) == \E i \in 1..Len(DigitStr) : DigitStr[i] = s

\* The value parseInt yields for text that does not start with a digit.
NaN == -1

\* parseInt of a string given as its dot-separated parts: the leading part
\* decides, since parsing stops at the first character that is no digit.
ParseInt(parts) ==
    IF Len(parts) > 0 /\ IsDigits(parts[1])
    THEN (CHOOSE i \in 1..Len(DigitStr) : DigitStr[i] = parts[1]) - 1
    ELSE NaN

\* path.includes(".fields."): a part "fields" with a dot on both sides.
IncludesDotFieldsDot(parts) ==
    \E k \in 2..(Len(parts) - 1) : parts[k] = "fields"

\* `${path}.fields.${index}`
ChildPath(path, index) == path \o <<"fields", ToStr(index)>>

\* `fields.${index}`
RootPath(index) == <<"fields", ToStr(index)>>

\* ------------------------------------------------ form.getValues / setValue
Undefined == [def |-> FALSE, arr |-> <<>>]

\* The form values object {fields: [...]} seen as a node with a `fields` array.
FormNode(f) == [has |-> TRUE, fields |-> f]

\* form.getValues(path) for a path "fields(.i.fields)*" that names an array:
\* the array, or undefined when a property or an element on the way is missing.
RECURSIVE GetArray(_, _)
GetArray(node, parts) ==
    IF ~node.has THEN Undefined
    ELSE IF Len(parts) = 1 THEN [def |-> TRUE, arr |-> node.fields]
    ELSE LET i == ParseInt(SubSeq(parts, 2, 2))
         IN  IF i >= Len(node.fields) THEN Undefined
             ELSE GetArray(node.fields[i + 1], SubSeq(parts, 3, Len(parts)))

\* form.getValues(path) for a path "fields.i(.fields.j)*" that names a field.
RECURSIVE GetField(_, _)
GetField(node, parts) ==
    LET i == ParseInt(SubSeq(parts, 2, 2))
    IN  IF Len(parts) = 2 THEN node.fields[i + 1]
        ELSE GetField(node.fields[i + 1], SubSeq(parts, 3, Len(parts)))

\* Does every element a path walks through exist?  (setValue then writes in
\* place; it never has to create an element.)
RECURSIVE ElementsExist(_, _)
ElementsExist(node, parts) ==
    \/ Len(parts) = 1
    \/ /\ Len(parts) >= 3
       /\ node.has
       /\ LET i == ParseInt(SubSeq(parts, 2, 2))
          IN  /\ i < Len(node.fields)
              /\ ElementsExist(node.fields[i + 1], SubSeq(parts, 3, Len(parts)))

\* form.setValue(path, value) for a path that names an array: the `fields`
\* property of the addressed object is set to value.
RECURSIVE SetArray(_, _, _)
SetArray(node, parts, value) ==
    IF Len(parts) = 1 THEN [node EXCEPT !.has = TRUE, !.fields = value]
    ELSE LET i == ParseInt(SubSeq(parts, 2, 2))
         IN  [node EXCEPT !.fields[i + 1] =
                 SetArray(node.fields[i + 1], SubSeq(parts, 3, Len(parts)), value)]

\* SetName as it would be if the model layer refused an empty name.
RECURSIVE SetName_RejectEmpty(_, _, _)
SetName_RejectEmpty(node, parts, value) ==
    LET i == ParseInt(SubSeq(parts, 2, 2))
    IN  IF value = "" THEN node
        ELSE IF Len(parts) = 2 THEN [node EXCEPT !.fields[i + 1].name = value]
        ELSE [node EXCEPT !.fields[i + 1] =
                 SetName_RejectEmpty(node.fields[i + 1], SubSeq(parts, 3, Len(parts)), value)]

\* The name input (register) writes `${path}.name`.
RECURSIVE SetName(_, _, _)
SetName(node, parts, value) ==
    LET i == ParseInt(SubSeq(parts, 2, 2))
    IN  IF Len(parts) = 2 THEN [node EXCEPT !.fields[i + 1].name = value]
        ELSE [node EXCEPT !.fields[i + 1] =
                 SetName(node.fields[i + 1], SubSeq(parts, 3, Len(parts)), value)]

\* SetType as it would be if choosing "nested" also created an empty
\* children sequence where there is none.
RECURSIVE SetType_InitChildren(_, _, _)
SetType_InitChildren(node, parts, value) ==
    LET i == ParseInt(SubSeq(parts, 2, 2))
    IN  IF Len(parts) = 2
        THEN [node EXCEPT !.fields[i + 1].type = value,
                          !.fields[i + 1].has = @ \/ value = "nested"]
        ELSE [node EXCEPT !.fields[i + 1] =
                 SetType_InitChildren(node.fields[i + 1], SubSeq(parts, 3, Len(parts)), value)]

\* SetType as it would be if leaving "nested" discarded the children.
RECURSIVE SetType_DropChildren(_, _, _)
SetType_DropChildren(node, parts, value) ==
    LET i == ParseInt(SubSeq(parts, 2, 2))
    IN  IF Len(parts) = 2
        THEN IF value = "nested"
             THEN [node EXCEPT !.fields[i + 1].type = value]
             ELSE [node EXCEPT !.fields[i + 1].type = value,
                               !.fields[i + 1].has = FALSE,
                               !.fields[i + 1].fields = <<>>]
        ELSE [node EXCEPT !.fields[i + 1] =
                 SetType_DropChildren(node.fields[i + 1], SubSeq(parts, 3, Len(parts)), value)]

\* The type select (Controller onChange) writes `${path}.type`.
RECURSIVE SetType(_, _, _)
SetType(node, parts, value) ==
    LET i == ParseInt(SubSeq(parts, 2, 2))
    IN  IF Len(parts) = 2 THEN [node EXCEPT !.fields[i + 1].type = value]
        ELSE [node EXCEPT !.fields[i + 1] =
                 SetType(node.fields[i + 1], SubSeq(parts, 3, Len(parts)), value)]

\* ---------------------------------------------------------- array helpers
\* Array.prototype.splice(index, 1) on a copy: the start index goes through
\* ToIntegerOrInfinity, which turns NaN into 0; a start at or past the end
\* removes nothing.
Splice(arr, index) ==
    LET start == IF index = NaN THEN 0 ELSE index
    IN  IF start >= Len(arr) THEN arr
        ELSE SubSeq(arr, 1, start) \o SubSeq(arr, start + 2, Len(arr))

\* useFieldArray's remove(index): splices the index out of the root array.
remove(arr, index) == Splice(arr, index)

\* useFieldArray's append(value).
append(arr, value) == Append(arr, value)

\* SpreadAppend as it would be if the new field were spread in twice.
SpreadAppend_Twice(currentFields, newField) ==
    currentFields \o <<newField, newField>>

\* SpreadAppend as it would be if the new field were put first.
SpreadAppend_Prepend(currentFields, newField) == <<newField>> \o currentFields

\* [...currentFields, newField]
SpreadAppend(currentFields, newField) == currentFields \o <<newField>>

\* ----------------------------------------------------------- generateSchema
EmptyObject == [n \in {} |-> 0]

\* A projected value: a type tag ("string", "number", "" of the default
\* branch) or an object, whose properties are props.
Tag(t) == [kind |-> t, props |-> EmptyObject]

Object(p) == [kind |-> "object", props |-> p]

\* SpreadSet as it would be with the spread last: {[name]: fieldValue, ...acc}
SpreadSet_FirstWins(acc, name, fieldValue) ==
    [k \in (DOMAIN acc) \cup {name} |-> IF k \in DOMAIN acc THEN acc[k] ELSE fieldValue]

\* {...acc, [name]: fieldValue}
SpreadSet(acc, name, fieldValue) ==
    [k \in (DOMAIN acc) \cup {name} |-> IF k = name THEN fieldValue ELSE acc[k]]

RECURSIVE generateSchema(_)
\* FieldValue as it would be if stored children were projected whatever the
\* type: field.fields?.length ? generateSchema(field.fields) : <the tag>.
FieldValue_ChildrenFirst(field) ==
    IF Len(field.fields) > 0 THEN Object(generateSchema(field.fields))
    ELSE IF field.type = "nested" THEN Object(EmptyObject)
    ELSE Tag(field.type)

\* The switch on field.type.
FieldValue(field) ==
    CASE field.type = "string" -> Tag("string")
      [] field.type = "number" -> Tag("number")
      [] field.type = "nested" ->
            IF field.has THEN Object(generateSchema(field.fields))
            ELSE Object(EmptyObject)
      [] OTHER -> Tag("")

\* fields.reduce((acc, field) => ({...acc, [field.name]: fieldValue}), {})
RECURSIVE Reduce(_, _, _)
Reduce(fs, k, acc) ==
    IF k > Len(fs) THEN acc
    ELSE Reduce(fs, k + 1, SpreadSet(acc, fs[k].name, FieldValue(fs[k])))

generateSchema(fs) == Reduce(fs, 1, EmptyObject)

\* ------------------------------------------------------------------ render
\* FieldRow as it would be without the test type === "nested".
RECURSIVE FieldRow_NoTypeTest(_, _)
FieldRow_NoTypeTest(field, path) ==
    {path} \cup
    UNION { FieldRow_NoTypeTest(field.fields[k], ChildPath(path, k - 1)) :
               k \in 1..Len(field.fields) }

\* The paths of the rows FieldRow renders for one field: its own row and,
\* only when its type is "nested", the rows of nestedFields.
RECURSIVE FieldRow(_, _)
FieldRow(field, path) ==
    {path} \cup
    IF field.type = "nested"
    THEN UNION { FieldRow(field.fields[k], ChildPath(path, k - 1)) :
                    k \in 1..Len(field.fields) }
    ELSE {}

\* fields.map((field, index) => <FieldRow path={`fields.${index}`} />)
Rows(f) == UNION { FieldRow(f[k], RootPath(k - 1)) : k \in 1..Len(f) }

\* The rows that show the "Add Nested Field" button.
NestedRows(f) == { p \in Rows(f) : GetField(FormNode(f), p).type = "nested" }

\* ---------------------------------------------------------------- handlers
NoCall == [op |-> "none", path |-> <<>>]

NoTrip == [stage |-> 0, path |-> <<>>, orig |-> <<>>]

\* addField(parentPath) as a function of the form values.
addFieldAt(f, parentPath, uuid) ==
    LET currentFields == LET got == GetArray(FormNode(f), parentPath \o <<"fields">>)
                         IN  IF got.def THEN got.arr ELSE <<>>
    IN  SetArray(FormNode(f), parentPath \o <<"fields">>,
                 SpreadAppend(currentFields, NewField(uuid))).fields

\* removeField(path) as a function of the form values.
removeFieldAt(f, path) ==
    IF IncludesDotFieldsDot(path)
    THEN LET index         == ParseInt(SubSeq(path, Len(path), Len(path)))
             parentPath    == SubSeq(path, 1, Len(path) - 1)
             got           == GetArray(FormNode(f), parentPath)
             currentFields == IF got.def THEN got.arr ELSE <<>>
             updatedFields == Splice(currentFields, index)
         IN  SetArray(FormNode(f), parentPath, updatedFields).fields
    ELSE remove(f, ParseInt(path))

\* const schema = generateSchema(form.watch("fields")): the projection is
\* computed from the current form values on every render.
schema == generateSchema(fields)

\* Records the handler call that led to the current render.
Called(call) == last' = call

Init ==
    /\ fields = <<NewField(1)>>
    /\ nextId = 1
    /\ last = NoCall
    /\ rt = NoTrip

\* The "Add Field" button: addField().
AddRootField ==
    /\ nextId < MaxIds
    /\ fields' = append(fields, NewField(nextId + 1))
    /\ nextId' = nextId + 1
    /\ rt' = NoTrip
    /\ Called([op |-> "add", path |-> <<>>])

\* The "Add Nested Field" button of the row rendered at path: addField(path).
AddNestedFieldRow(path) ==
    /\ nextId < MaxIds
    /\ fields' = addFieldAt(fields, path, nextId + 1)
    /\ Called([op |-> "add", path |-> path])
    /\ nextId' = nextId + 1
    /\ rt' = NoTrip

AddNestedField == \E path \in NestedRows(fields) : AddNestedFieldRow(path)

\* The trash button of the row rendered at path: removeField(path).
RemoveFieldRow(path) ==
    /\ fields' = removeFieldAt(fields, path)
    /\ Called([op |-> "remove", path |-> path])
    /\ rt' = NoTrip
    /\ UNCHANGED nextId

RemoveField == \E path \in Rows(fields) : RemoveFieldRow(path)

\* Typing into the name input of the row rendered at path: a change event
\* carries a text that differs from the current one.
EditNameRow(path, name) ==
    /\ name # GetField(FormNode(fields), path).name
    /\ fields' = SetName(FormNode(fields), path, name).fields
    /\ Called([op |-> "rename", path |-> <<>>])
    /\ rt' = NoTrip
    /\ UNCHANGED nextId

EditName == \E path \in Rows(fields), name \in Names : EditNameRow(path, name)

\* Choosing another item in the type select of the row rendered at path
\* (onValueChange fires when the value changes).
EditTypeRow(path, type) ==
    /\ type # GetField(FormNode(fields), path).type
    /\ fields' = SetType(FormNode(fields), path, type).fields
    /\ Called([op |-> "retype", path |-> <<>>])
    /\ rt' = IF GetField(FormNode(fields), path).type = "nested" /\ type # "nested"
             THEN [stage |-> 1, path |-> path, orig |-> fields]
             ELSE IF rt.stage = 1 /\ rt.path = path /\ type = "nested"
             THEN [rt EXCEPT !.stage = 2]
             ELSE NoTrip
    /\ UNCHANGED nextId

EditType ==
    \E path \in Rows(fields), type \in SchemaFieldType : EditTypeRow(path, type)

Next ==
    \/ AddRootField
    \/ AddNestedField
    \/ RemoveField
    \/ EditName
    \/ EditType

Spec == Init /\ [][Next]_vars

\* ------------------------------------------- removeField called directly
\* Path strings "fields.i(.fields.j)*" of at most depth levels, with indices
\* 0..MaxCallIndex.
RECURSIVE PathStrings(_)
PathStrings(depth) ==
    IF depth = 1 THEN { RootPath(i) : i \in 0..MaxCallIndex }
    ELSE LET shorter == PathStrings(depth - 1)
         IN  shorter \cup { ChildPath(p, i) : p \in shorter, i \in 0..MaxCallIndex }

CallPaths == PathStrings(MaxCallDepth)

\* removeField(path) with any such path, rendered or not, as long as every
\* element the parent path walks through exists.
RemoveFieldCall ==
    \E path \in CallPaths :
        /\ ElementsExist(FormNode(fields), SubSeq(path, 1, Len(path) - 1))
        /\ RemoveFieldRow(path)

NextApi ==
    \/ Next
    \/ RemoveFieldCall

SpecApi == Init /\ [][NextApi]_vars

\* =================================================================== claims
\* ----------------------------------------------- the tree seen as a set
\* The index sequence a path string denotes: "fields.1.fields.0" is <<1, 0>>.
Indices(path) ==
    [k \in 1..(Len(path) \div 2) |-> ParseInt(SubSeq(path, 2 * k, 2 * k))]

\* A path string of the shape "fields.i(.fields.j)*".
WellFormedPath(path) ==
    /\ Len(path) >= 2
    /\ Len(path) % 2 = 0
    /\ \A k \in 1..Len(path) :
          IF k % 2 = 1 THEN path[k] = "fields" ELSE IsDigits(path[k])

\* Path resolution: every index is in bounds, and every field that is
\* descended into has type nested.
RECURSIVE Resolves(_, _)
Resolves(arr, idx) ==
    /\ Len(idx) >= 1
    /\ idx[1] >= 0
    /\ idx[1] < Len(arr)
    /\ \/ Len(idx) = 1
       \/ /\ arr[idx[1] + 1].type = "nested"
          /\ Resolves(arr[idx[1] + 1].fields, Tail(idx))

\* Every field of the tree, hidden ones included, with its position.
RECURSIVE Entries(_, _)
Entries(arr, at) ==
    UNION { { [at   |-> at \o <<k - 1>>,
               id   |-> arr[k].id,
               name |-> arr[k].name,
               type |-> arr[k].type,
               has  |-> arr[k].has] }
            \cup Entries(arr[k].fields, at \o <<k - 1>>) : k \in 1..Len(arr) }

Tree(f) == Entries(f, <<>>)

\* Every array of the tree: the root array and each children sequence.
RECURSIVE Arrays(_)
Arrays(arr) == {arr} \cup UNION { Arrays(arr[k].fields) : k \in 1..Len(arr) }

IsPrefix(p, q) == Len(p) <= Len(q) /\ SubSeq(q, 1, Len(p)) = p

\* The tree without the field at idx and its subtree, the siblings that
\* followed it moved one index down.
Without(tree, idx) ==
    LET n == Len(idx)
        parent == SubSeq(idx, 1, n - 1)
    IN  { IF IsPrefix(parent, e.at) /\ e.at[n] > idx[n]
          THEN [e EXCEPT !.at[n] = @ - 1]
          ELSE e : e \in { d \in tree : ~IsPrefix(idx, d.at) } }

\* Is arr[k] the last field of arr with its name?
LastWriter(arr, k) == \A j \in (k + 1)..Len(arr) : arr[j].name # arr[k].name

\* Is every field on the way to idx the last of its siblings with its name?
RECURSIVE LastWriterAlong(_, _)
LastWriterAlong(arr, idx) ==
    /\ LastWriter(arr, idx[1] + 1)
    /\ \/ Len(idx) = 1
       \/ LastWriterAlong(arr[idx[1] + 1].fields, Tail(idx))

\* What a projection holds for the field at idx: the properties are followed
\* by the names of the fields on the way.
Missing == [kind |-> "missing", props |-> EmptyObject]

RECURSIVE Lookup(_, _, _)
Lookup(props, arr, idx) ==
    LET name == arr[idx[1] + 1].name
    IN  IF name \notin DOMAIN props THEN Missing
        ELSE IF Len(idx) = 1 THEN props[name]
        ELSE Lookup(props[name].props, arr[idx[1] + 1].fields, Tail(idx))

\* ------------------------------------------------------------------- C1
\* C1 (as claimed): removeField(p) with a path p that resolves to a field
\* deletes exactly that field and its subtree from its parent's sequence; the
\* other fields stay, the following siblings one index down.
C1_RemovesFieldAtPath ==
    [][ (last'.op = "remove" /\ Resolves(fields, Indices(last'.path)))
        => Tree(fields') = Without(Tree(fields), Indices(last'.path)) ]_vars

\* ------------------------------------------------------------------- C2
\* C2: in every reachable state all ids of the tree, at all nesting levels
\* and hidden fields included, are distinct.
C2_IdsUnique ==
    \A d, e \in Tree(fields) : d.id = e.id => d.at = e.at

C2_Witness ==
    /\ last.op = "remove"
    /\ \E d, e \in Tree(fields) : Len(d.at) = 1 /\ Len(e.at) = 2

\* ------------------------------------------------------------------- C3
\* C3: for every field sequence of the tree (the root array and every
\* children sequence), generateSchema yields the object whose keys are the
\* names of the sequence and whose value for a name is that of the last field
\* with the name: "string", "number", or the projection of its children ({}
\* when it has none), and the empty sequence yields {}.
ValueOf(field) ==
    IF field.type = "nested"
    THEN Object(generateSchema(field.fields))
    ELSE Tag(field.type)

C3_Projection ==
    /\ \A arr \in Arrays(fields) :
          LET obj == generateSchema(arr)
          IN  /\ DOMAIN obj = { arr[k].name : k \in 1..Len(arr) }
              /\ \A k \in 1..Len(arr) :
                    LastWriter(arr, k) => obj[arr[k].name] = ValueOf(arr[k])
    /\ generateSchema(<<>>) = EmptyObject

C3_Witness ==
    /\ Len(fields) = 2
    /\ fields[1].name = fields[2].name
    /\ fields[1].type = "string"
    /\ fields[2].type = "nested"
    /\ Len(fields[2].fields) = 1
    /\ schema = [n \in {fields[1].name} |->
                    Object([m \in {fields[2].fields[1].name} |-> Tag("string")])]

\* ------------------------------------------------------------------- C4
\* C4 (as claimed): a rendered field of type string or number that still
\* stores children is mapped by the projection to its type tag.
HidesChildren(field) ==
    field.type \in {"string", "number"} /\ Len(field.fields) > 0

C4_TypeTagOriginal ==
    \A path \in Rows(fields) :
        LET field == GetField(FormNode(fields), path)
        IN  HidesChildren(field)
            => Lookup(schema, fields, Indices(path)) = Tag(field.type)

\* C4 (amended): a rendered field of type string or number that still stores
\* children is mapped by the projection to its type tag, with no nested
\* content, provided neither it nor one of its ancestors is followed by a
\* sibling of the same name.
C4_TypeTag ==
    \A path \in Rows(fields) :
        LET field == GetField(FormNode(fields), path)
        IN  (HidesChildren(field) /\ LastWriterAlong(fields, Indices(path)))
            => Lookup(schema, fields, Indices(path)) = Tag(field.type)

C4_Witness ==
    \E path \in Rows(fields) :
        /\ HidesChildren(GetField(FormNode(fields), path))
        /\ LastWriterAlong(fields, Indices(path))
        /\ last.op = "retype"

\* ------------------------------------------------------------------- C5
\* C5 (as claimed): removeField(path) with a path that does not resolve to a
\* field leaves the tree unchanged.
C5_InvalidPathLeavesTree ==
    [][ (last'.op = "remove" /\ ~Resolves(fields, Indices(last'.path)))
        => fields' = fields ]_vars

\* ------------------------------------------------------------------- C6
\* C6: addField() appends one new field (fresh id, empty name, type string,
\* no children) at the end of the root array, addField(parentPath) at the end
\* of the children of the field at parentPath; every other field keeps its
\* position, id, name, type and children.
AddedAt(f, parent) ==
    IF parent = <<>> THEN parent \o <<Len(f)>>
    ELSE parent \o <<Len(GetField(FormNode(f), last'.path).fields)>>

C6_AddAppends ==
    [][ last'.op = "add" =>
        LET parent == Indices(last'.path)
            new    == [at |-> AddedAt(fields, parent), id |-> nextId', name |-> "",
                       type |-> "string", has |-> FALSE]
        IN  /\ \A e \in Tree(fields) : e.id # new.id
            /\ Tree(fields') =
                 { IF e.at = parent THEN [e EXCEPT !.has = TRUE] ELSE e :
                      e \in Tree(fields) } \cup {new} ]_vars

C6_Witness ==
    /\ last.op = "add"
    /\ last.path # <<>>
    /\ Len(GetField(FormNode(fields), last.path).fields) = 2

\* ------------------------------------------------------------------- C7
\* C7 (as claimed): in every reachable state a field has a children sequence
\* exactly when its type is nested.
C7_ChildrenIffNested ==
    \A e \in Tree(fields) : e.has <=> e.type = "nested"

\* C7 (amended): setting the type of a field changes the type of one field
\* and nothing else; no field gains or loses a children sequence, and every
\* field keeps its position, id and name.  A nested field without a children
\* sequence projects to {}.
Untyped(tree) ==
    { [at |-> e.at, id |-> e.id, name |-> e.name, has |-> e.has] : e \in tree }

C7_TypeEditKeepsChildren ==
    /\ [][ last'.op = "retype" =>
           /\ Untyped(Tree(fields')) = Untyped(Tree(fields))
           /\ Cardinality(Tree(fields') \ Tree(fields)) = 1 ]_vars
    /\ [](\A path \in Rows(fields) :
            LET field == GetField(FormNode(fields), path)
            IN  (field.type = "nested" /\ ~field.has
                   /\ LastWriterAlong(fields, Indices(path)))
                => Lookup(schema, fields, Indices(path)) = Object(EmptyObject))

C7_Witness ==
    /\ last.op = "retype"
    /\ Len(fields) = 1
    /\ fields[1].type = "nested"
    /\ ~fields[1].has
    /\ schema = [n \in {fields[1].name} |-> Object(EmptyObject)]

\* ------------------------------------------------------------------- C8
\* C8: every path the rendered rows hand to addField or removeField is a
\* well-formed path that resolves in the current tree to a field whose
\* ancestors all have type nested.
C8_IssuedPathsResolve ==
    [][ (last'.op \in {"add", "remove"} /\ last'.path # <<>>)
        => /\ WellFormedPath(last'.path)
           /\ Resolves(fields, Indices(last'.path)) ]_vars

C8_Witness ==
    /\ last.op = "remove"
    /\ Len(last.path) = 4
    /\ \E e \in Tree(fields) : Len(e.at) = 2

\* ------------------------------------------------------------------- C9
\* C9: a name edit, to the empty string included, sets the name of the field
\* at the path and changes nothing else; afterwards every add, remove, name
\* edit and type edit of a rendered row is still enabled; and the root fields
\* left unnamed collide under the key "", which holds the value of the last.
EditingEnabled ==
    /\ nextId < MaxIds => ENABLED AddRootField
    /\ \A path \in Rows(fields) :
          /\ ENABLED RemoveFieldRow(path)
          /\ \A name \in Names \ {GetField(FormNode(fields), path).name} :
                ENABLED EditNameRow(path, name)
          /\ \A type \in SchemaFieldType \ {GetField(FormNode(fields), path).type} :
                ENABLED EditTypeRow(path, type)
    /\ \A path \in NestedRows(fields) :
          nextId < MaxIds => ENABLED AddNestedFieldRow(path)

C9_NameEdit ==
    /\ [][ last'.op = "rename" =>
           \A path \in Rows(fields), name \in Names :
              EditNameRow(path, name) =>
                Tree(fields') =
                  { IF e.at = Indices(path) THEN [e EXCEPT !.name = name]
                    ELSE e : e \in Tree(fields) } ]_vars
    /\ [](last.op = "rename" => EditingEnabled)
    /\ [](\A k \in 1..Len(fields) :
            (fields[k].name = "" /\ LastWriter(fields, k))
            => /\ "" \in DOMAIN schema
               /\ schema[""] = ValueOf(fields[k]))

C9_Witness ==
    /\ last.op = "rename"
    /\ Len(fields) = 2
    /\ fields[1].name = ""
    /\ fields[2].name = ""
    /\ fields[1].type # fields[2].type

\* ------------------------------------------------------------------ C10
\* C10: a type edit of a nested field to string or number, directly followed
\* by a type edit of the same field back to nested, leaves the tree, and so
\* the projection, as they were before the two edits.
C10_TypeRoundTrip ==
    rt.stage = 2 => /\ fields = rt.orig
                    /\ schema = generateSchema(rt.orig)
                    /\ GetField(FormNode(fields), rt.path).type = "nested"

C10_Witness ==
    /\ rt.stage = 2
    /\ Len(GetField(FormNode(fields), rt.path).fields) > 0
====
